---- MODULE Spec2Model ----
(***************************************************************************)
(* Model of the Sudanese Moebius strip curvature pipeline:                 *)
(*   package  src/src/sudanese_mobius/{parameters, S3_parameterization,    *)
(*            stereo_projection, curvature, visualization}.py              *)
(*   script   src/sudanese_mobius_curvature.py                             *)
(*                                                                         *)
(* Numbers.  The code computes in IEEE doubles.  The model computes the    *)
(* same expressions exactly, on rationals [n |-> numerator, d |-> denom],  *)
(* and keeps the three non-finite outcomes of a float division:            *)
(*   d = 0, n = 0  is NaN;  d = 0, n = 1 is +Inf;  d = 0, n = -1 is -Inf.  *)
(* Rounding and signed zeros are not modelled.  A division by the normal   *)
(* length sqrt(s) is kept symbolic: a value "in units of 1/norm_n" is the  *)
(* rational q of  q / sqrt(s).                                             *)
(*                                                                         *)
(* Intermediate results (the locals of a Python function) are passed on as *)
(* arguments of local operators, so that each is computed once.            *)
(***************************************************************************)
EXTENDS Integers, Sequences, FiniteSets, TLC

Abs(a) == IF a < 0 THEN -a ELSE a

Sign(a) == IF a < 0 THEN -1 ELSE IF a > 0 THEN 1 ELSE 0

RECURSIVE GCD(_, _)
GCD(a, b) == IF b = 0 THEN a ELSE GCD(b, a % b)

\* the float n/d for integers n, d # 0, in lowest terms with d > 0
Rat(n, d) ==
    LET Reduced(g) == [n |-> Sign(d) * (n \div g), d |-> Abs(d) \div g]
    IN  Reduced(GCD(Abs(n), Abs(d)))

R(k) == [n |-> k, d |-> 1]

NaN == [n |-> 0, d |-> 0]

Inf(s) == [n |-> s, d |-> 0]

IsNaN(a) == a.d = 0 /\ a.n = 0

IsInf(a) == a.d = 0 /\ a.n # 0

IsFinite(a) == a.d # 0

\* float negation
RNeg(a) == [n |-> -a.n, d |-> a.d]

\* float addition: NaN is absorbing, Inf + (-Inf) is NaN
RAdd(a, b) ==
    IF a.d = 1 /\ b.d = 1 THEN [n |-> a.n + b.n, d |-> 1]
    ELSE IF IsNaN(a) \/ IsNaN(b) THEN NaN
    ELSE IF IsInf(a) /\ IsInf(b) THEN (IF a.n = b.n THEN a ELSE NaN)
    ELSE IF IsInf(a) THEN a
    ELSE IF IsInf(b) THEN b
    ELSE IF a.d = b.d THEN Rat(a.n + b.n, a.d)
    ELSE LET Over(g) == Rat(a.n * (b.d \div g) + b.n * (a.d \div g),
                             (a.d \div g) * b.d)
         IN  Over(GCD(a.d, b.d))

RSub(a, b) == RAdd(a, RNeg(b))

\* float multiplication: NaN is absorbing, Inf * 0 is NaN
RMul(a, b) ==
    IF a.d = 1 /\ b.d = 1 THEN [n |-> a.n * b.n, d |-> 1]
    ELSE IF IsNaN(a) \/ IsNaN(b) THEN NaN
    ELSE IF IsInf(a) \/ IsInf(b)
         THEN (IF a.n = 0 \/ b.n = 0 THEN NaN ELSE Inf(Sign(a.n) * Sign(b.n)))
    ELSE LET Crossed(g1, g2) == [n |-> (a.n \div g1) * (b.n \div g2),
                                  d |-> (a.d \div g2) * (b.d \div g1)]
         IN  Crossed(GCD(Abs(a.n), b.d), GCD(Abs(b.n), a.d))

\* numpy float division: x/0 is +-Inf, 0/0 is NaN, no exception is raised
RDiv(a, b) ==
    IF a.d = 1 /\ b.d = 1 /\ b.n > 0 /\ a.n % b.n = 0 THEN [n |-> a.n \div b.n, d |-> 1]
    ELSE IF IsNaN(a) \/ IsNaN(b) THEN NaN
    ELSE IF IsInf(a) THEN (IF IsInf(b) THEN NaN
                           ELSE Inf(a.n * (IF b.n < 0 THEN -1 ELSE 1)))
    ELSE IF IsInf(b) THEN R(0)
    ELSE IF b.n = 0 THEN (IF a.n = 0 THEN NaN ELSE Inf(Sign(a.n)))
    ELSE RMul(a, [n |-> Sign(b.n) * b.d, d |-> Abs(b.n)])

\* whether n1/d1 < n2/d2 for d1, d2 > 0, by continued fractions (no products)
RECURSIVE FracLt(_, _, _, _)
FracLt(n1, d1, n2, d2) ==
    LET q1 == n1 \div d1
        q2 == n2 \div d2
        r1 == n1 % d1
        r2 == n2 % d2
    IN  IF q1 # q2 THEN q1 < q2
        ELSE IF r2 = 0 THEN FALSE
        ELSE IF r1 = 0 THEN TRUE
        ELSE FracLt(d2, r2, d1, r1)

\* float comparison a < b: false as soon as one side is NaN
RLt(a, b) ==
    IF IsNaN(a) \/ IsNaN(b) THEN FALSE
    ELSE IF IsInf(a) THEN a.n < 0 /\ ~(IsInf(b) /\ b.n < 0)
    ELSE IF IsInf(b) THEN b.n > 0
    ELSE FracLt(a.n, a.d, b.n, b.d)

\* np.sqrt(s) < b for a bound b > 0, that is 0 <= s < b*b; np.sqrt of NaN or
\* of a negative number is NaN, which is below nothing
SqrtLt(s, b) ==
    /\ IsFinite(s)
    /\ s.n >= 0
    /\ s.n <= ((b.n * b.n * s.d - 1) \div b.d) \div b.d

\* np.abs
RAbs(a) == [n |-> Abs(a.n), d |-> a.d]

(***************************************************************************)
(* Arrays.  A scalar field of shape (GridN, GridN) is a function from Grid *)
(* to values, a point field of shape (GridN, GridN, k) a function from     *)
(* Grid to k-tuples of values.  Axis 0 is the first index, axis 1 the      *)
(* second.                                                                 *)
(***************************************************************************)
GridN == 3

Grid == (0 .. GridN - 1) \X (0 .. GridN - 1)

\* the array f with every entry computed: f itself
Array(f) == f @@ f

\* the index of the sample i on the line through p along the axis
AlongAxis(p, axis, i) == IF axis = 0 THEN <<i, p[2]>> ELSE <<p[1], i>>

\* np.gradient(f, h, axis=axis, edge_order=2) at the sample k of a line of
\* GridN samples along that axis: central differences inside, the one-sided
\* second-order stencils at both ends
GradientAt(line, k, h) ==
    IF k = 0
    THEN RDiv(RNeg(RAdd(RSub(RMul(R(3), line[0]), RMul(R(4), line[1])), line[2])),
              RMul(R(2), h))
    ELSE IF k = GridN - 1
    THEN RDiv(RAdd(RSub(RMul(R(3), line[k]), RMul(R(4), line[k - 1])), line[k - 2]),
              RMul(R(2), h))
    ELSE RDiv(RSub(line[k + 1], line[k - 1]), RMul(R(2), h))

\* np.gradient of a point field, coordinate by coordinate
GradientV(c, h, axis) ==
    Array([p \in Grid |->
        Array([k \in DOMAIN c[p] |->
            GradientAt([i \in 0 .. GridN - 1 |-> c[AlongAxis(p, axis, i)][k]],
                       p[axis + 1], h)])])

(***************************************************************************)
(* Curvature engine: src/src/sudanese_mobius/curvature.py and              *)
(* curvature_comp of src/sudanese_mobius_curvature.py.                     *)
(***************************************************************************)
Dot3(a, b) == RAdd(RAdd(RMul(a[1], b[1]), RMul(a[2], b[2])), RMul(a[3], b[3]))

\* a / norm_n with norm_n = np.sqrt(s).  For a positive finite s the quotient
\* is kept in units of 1/norm_n; for s = 0 it is the float a / 0.0 (NaN for
\* a = 0), and NaN and +Inf pass through the square root unchanged.
DivNorm(a, s) == IF IsFinite(s) /\ s.n > 0 THEN a ELSE RDiv(a, s)

\* the float value of a product of two quantities held in units of 1/norm_n
FromNormUnits2(q, s) == IF IsFinite(s) /\ s.n > 0 THEN RDiv(q, s) ELSE q

\* The normal, the fundamental forms and the curvatures at one sample, from
\* the first partials cu, cv and the second partials cuu, cuv (the one used
\* in M) and cvv there.  norm2 is the radicand of norm_n; nx, ny, nz, L, M, N
\* and H are in units of 1/norm_n.
FormsAt(cu, cv, cuu, cuv, cvv) ==
    LET xu == cu[1]
        xv == cv[1]
        yu == cu[2]
        yv == cv[2]
        zu == cu[3]
        zv == cv[3]
        Curvatures(norm2, E, F, G, L, M, N, denom) ==
            [norm2 |-> norm2, E |-> E, F |-> F, G |-> G, denom |-> denom,
             H |-> [q |-> RDiv(RAdd(RSub(RMul(L, G), RMul(RMul(R(2), M), F)),
                                    RMul(N, E)),
                               RMul(R(2), denom)),
                    s |-> norm2],
             K |-> FromNormUnits2(RDiv(RSub(RMul(L, N), RMul(M, M)), denom), norm2)]
        Forms(norm2, n, E, F, G) ==
            Curvatures(norm2, E, F, G, Dot3(cuu, n), Dot3(cuv, n), Dot3(cvv, n),
                       RSub(RMul(E, G), RMul(F, F)))
        Normalized(n_org, norm2) ==
            Forms(norm2,
                  <<DivNorm(n_org[1], norm2), DivNorm(n_org[2], norm2),
                    DivNorm(n_org[3], norm2)>>,
                  Dot3(cu, cu), Dot3(cu, cv), Dot3(cv, cv))
        Normal(n_org) ==
            Normalized(n_org,
                       RAdd(RAdd(RMul(n_org[1], n_org[1]), RMul(n_org[2], n_org[2])),
                            RMul(n_org[3], n_org[3])))
    IN  Normal(<< RSub(RMul(yu, zv), RMul(zu, yv)),
                  RSub(RMul(zu, xv), RMul(xu, zv)),
                  RSub(RMul(xu, yv), RMul(yu, xv)) >>)

\* 0.5*(raw_uv + raw_vu), coordinate by coordinate
Average(raw_uv, raw_vu) ==
    Array([p \in Grid |->
        Array([k \in DOMAIN raw_uv[p] |->
            RMul(Rat(1, 2), RAdd(raw_uv[p][k], raw_vu[p][k]))])])

\* the mixed second partial comp_curve_data uses in M, from cu and cv
MixedPartial(cu, cv, du, dv) ==
    LET Mixed(cuv, cvu) == Average(cuv, cvu)
    IN  Mixed(GradientV(cu, dv, 1), GradientV(cv, du, 1))

\* the fields of the samples' records
Field(forms, name) == Array([p \in Grid |-> forms[p][name]])

\* the locals of comp_curve_data, up to K_R3
comp_curve_locals(c, du, dv) ==
    LET Locals(cuv, forms) ==
            [cuv |-> cuv, norm2 |-> Field(forms, "norm2"),
             denom |-> Field(forms, "denom"),
             H |-> Field(forms, "H"), K_R3 |-> Field(forms, "K")]
        Second(cu, cv, cuu, cvv, cuv) ==
            Locals(cuv, Array([p \in Grid |->
                            FormsAt(cu[p], cv[p], cuu[p], cuv[p], cvv[p])]))
        First(cu, cv) ==
            Second(cu, cv, GradientV(cu, du, 0), GradientV(cv, dv, 1),
                   MixedPartial(cu, cv, du, dv))
    IN  First(GradientV(c, du, 0), GradientV(c, dv, 1))

\* comp_curve_data as it would end if the overlay argument K_S3 entered the
\* Gaussian curvature it returns
CurvatureDataShared(loc, scale, K_S3) ==
    [mean_curvature |-> loc.H,
     gaussian_curvature |-> Array([p \in Grid |-> RAdd(loc.K_R3[p], K_S3[p])]),
     scale_factor |-> scale]

\* the end of comp_curve_data: Scale_Factor = scale and the CurvatureData built
\* from the locals
CurvatureData(loc, scale, K_S3) ==
    [mean_curvature |-> loc.H, gaussian_curvature |-> loc.K_R3, scale_factor |-> scale]

comp_curve_data(c, scale, K_S3, du, dv) ==
    CurvatureData(comp_curve_locals(c, du, dv), scale, K_S3)

\* the script's curvature_comp: np.gradient(f, du, dv) is the pair of the
\* gradient along axis 0 with spacing du and along axis 1 with spacing dv
curvature_comp(c, du, dv) ==
    LET Fields(forms) ==
            [norm2 |-> Field(forms, "norm2"), E |-> Field(forms, "E"),
             F |-> Field(forms, "F"), G |-> Field(forms, "G"),
             H |-> Field(forms, "H"), K |-> Field(forms, "K")]
        Second(cu, cv, cuu, cvv, cuv) ==
            Fields(Array([p \in Grid |->
                       FormsAt(cu[p], cv[p], cuu[p], cuv[p], cvv[p])]))
        First(cu, cv) ==
            Second(cu, cv, GradientV(cu, du, 0), GradientV(cv, dv, 1),
                   Average(GradientV(cu, dv, 1), GradientV(cv, du, 0)))
    IN  First(GradientV(c, du, 0), GradientV(c, dv, 1))

\* gaussian_curvature_S3: the intrinsic curvature of the point field x in S3
det3(a, b, c) ==
    RSub(RSub(RSub(RAdd(RAdd(RMul(RMul(a[1], b[2]), c[3]),
                             RMul(RMul(a[2], b[3]), c[1])),
                        RMul(RMul(a[3], b[1]), c[2])),
                   RMul(RMul(a[3], b[2]), c[1])),
              RMul(RMul(a[2], b[1]), c[3])),
         RMul(RMul(a[1], b[3]), c[2]))

\* x[..., idx]
Take(x, idx) == [k \in 1 .. Len(idx) |-> x[idx[k] + 1]]

Dot4(a, b) == RAdd(RAdd(RMul(a[1], b[1]), RMul(a[2], b[2])),
                   RAdd(RMul(a[3], b[3]), RMul(a[4], b[4])))

\* the four minors of the normal without the alternation of signs
NormalS3Unsigned(x, xu, xv) ==
    << det3(Take(x, <<1, 2, 3>>), Take(xu, <<1, 2, 3>>), Take(xv, <<1, 2, 3>>)),
       det3(Take(x, <<0, 2, 3>>), Take(xu, <<0, 2, 3>>), Take(xv, <<0, 2, 3>>)),
       det3(Take(x, <<0, 1, 3>>), Take(xu, <<0, 1, 3>>), Take(xv, <<0, 1, 3>>)),
       det3(Take(x, <<0, 1, 2>>), Take(xu, <<0, 1, 2>>), Take(xv, <<0, 1, 2>>)) >>

\* the normal before normalisation, from the point x and its first partials
NormalS3(x, xu, xv) ==
    << det3(Take(x, <<1, 2, 3>>), Take(xu, <<1, 2, 3>>), Take(xv, <<1, 2, 3>>)),
       RNeg(det3(Take(x, <<0, 2, 3>>), Take(xu, <<0, 2, 3>>), Take(xv, <<0, 2, 3>>))),
       det3(Take(x, <<0, 1, 3>>), Take(xu, <<0, 1, 3>>), Take(xv, <<0, 1, 3>>)),
       RNeg(det3(Take(x, <<0, 1, 2>>), Take(xu, <<0, 1, 2>>), Take(xv, <<0, 1, 2>>))) >>

\* the curvature at one sample: n, L, M, N are in units of 1/norm_n
CurvatureS3At(x, xu, xv, xuu, xuv, xvv) ==
    LET Result(norm2, L, M, N, denom) ==
            RAdd(FromNormUnits2(RDiv(RSub(RMul(L, N), RMul(M, M)), denom), norm2),
                 R(1))
        Forms(norm2, n, E, F, G) ==
            Result(norm2, Dot4(xuu, n), Dot4(xuv, n), Dot4(xvv, n),
                   RSub(RMul(E, G), RMul(F, F)))
        Normalized(n_org, norm2) ==
            Forms(norm2,
                  <<DivNorm(n_org[1], norm2), DivNorm(n_org[2], norm2),
                    DivNorm(n_org[3], norm2), DivNorm(n_org[4], norm2)>>,
                  Dot4(xu, xu), Dot4(xu, xv), Dot4(xv, xv))
        Normal(n_org) == Normalized(n_org, Dot4(n_org, n_org))
    IN  Normal(NormalS3(x, xu, xv))

gaussian_curvature_S3(x, du, dv) ==
    LET Second(xu, xv, xuu, xuv, xvv) ==
            Array([p \in Grid |->
                CurvatureS3At(x[p], xu[p], xv[p], xuu[p], xuv[p], xvv[p])])
        First(xu, xv) ==
            Second(xu, xv, GradientV(xu, du, 0), GradientV(xu, dv, 1),
                   GradientV(xv, dv, 1))
    IN  First(GradientV(x, du, 0), GradientV(x, dv, 1))

(***************************************************************************)
(* Grid generator: src/src/sudanese_mobius/parameters.py                   *)
(***************************************************************************)
None == [type |-> "None"]

ValueError(words) == [type |-> "ValueError", message |-> words]

KeyError(key) == [type |-> "KeyError", message |-> <<key>>]

\* the frozen dataclass: its generated __init__ stores the five fields
GridParameters(resolution, u_min, u_max, v_min, v_max) ==
    [resolution |-> resolution, u_min |-> u_min, u_max |-> u_max,
     v_min |-> v_min, v_max |-> v_max]

\* np.linspace(start, stop, num): num < 0 raises, num = 0 is the empty array,
\* num = 1 is [start], otherwise start + k*(stop - start)/(num - 1)
linspace(start, stop, num) ==
    IF num < 0
    THEN ValueError(<<"Number", "of", "samples", "must", "be", "non-negative">>)
    ELSE [type |-> "ndarray",
          value |-> Array([k \in 1 .. num |->
                        IF num = 1 THEN R(start)
                        ELSE RAdd(R(start), RMul(R(k - 1), Rat(stop - start, num - 1)))])]

Raised(r) == r.type \in {"ValueError", "KeyError"}

(***************************************************************************)
(* S3 parameterizer.  The four products of sines and cosines at a sample   *)
(* are an input x = <<x1, x2, x3, x4>> of the model; the rotation applied  *)
(* to them is computed.                                                    *)
(***************************************************************************)
\* the integer array R is built from, before the factor 0.5
RotationEntries ==
    << << 1, -1, -1, -1 >>,
       << 1,  1, -1,  1 >>,
       << 1,  1,  1, -1 >>,
       << 1, -1,  1,  1 >> >>

\* a matrix with the entries of R in absolute value
RotationMatrixUnsigned ==
    [i \in 1 .. 4 |-> [j \in 1 .. 4 |-> RMul(Rat(1, 2), R(Abs(RotationEntries[i][j])))]]

\* R = 0.5 * np.array(...)
RotationMatrix ==
    [i \in 1 .. 4 |-> [j \in 1 .. 4 |-> RMul(Rat(1, 2), R(RotationEntries[i][j]))]]

Transpose(m) == [j \in 1 .. Len(m[1]) |-> [i \in 1 .. Len(m) |-> m[i][j]]]

RECURSIVE SumTo(_, _)
SumTo(term, k) == IF k = 0 THEN R(0) ELSE RAdd(SumTo(term, k - 1), term[k])

\* the row vector x times the matrix m
VecMat(x, m) ==
    Array([i \in 1 .. Len(m[1]) |->
        SumTo([j \in 1 .. Len(x) |-> RMul(x[j], m[j][i])], Len(x))])

\* mobius_strip_s3 on the stacked products x: x @ R.T
mobius_strip_s3(x) == VecMat(x, Transpose(RotationMatrix))

\* the script's param_uv on the same products
param_uv(x) ==
    LET half == Rat(1, 2)
    IN  << RMul(half, RSub(RSub(RSub(x[1], x[2]), x[3]), x[4])),
           RMul(half, RAdd(RSub(RAdd(x[1], x[2]), x[3]), x[4])),
           RMul(half, RSub(RAdd(RAdd(x[1], x[2]), x[3]), x[4])),
           RMul(half, RAdd(RAdd(RSub(x[1], x[2]), x[3]), x[4])) >>

(***************************************************************************)
(* Stereographic projector.  The second and third coordinates of the       *)
(* rotated point are multiples of sqrt(2)/2 and are kept in that unit.     *)
(***************************************************************************)
\* rot, its second and third rows in units of sqrt(2)/2
DisplayRotation ==
    << << R(1), R(0), R(0) >>,
       << R(0), R(1), R(-1) >>,
       << R(0), R(1), R(1) >> >>

stereographic_projection(x) ==
    LET denom == RSub(R(1), x[4])
        c == [k \in 1 .. 3 |-> RDiv(x[k], denom)]
    IN  [c |-> VecMat(c, Transpose(DisplayRotation)), scale |-> RDiv(R(1), denom)]

\* the script's stereoproj
stereoproj(x) ==
    LET c_1 == RDiv(x[1], RSub(R(1), x[4]))
        c_2 == RDiv(x[2], RSub(R(1), x[4]))
        c_3 == RDiv(x[3], RSub(R(1), x[4]))
    IN  << c_1, RSub(c_2, c_3), RAdd(c_2, c_3) >>

(***************************************************************************)
(* Singularity guard of the script                                         *)
(***************************************************************************)
EpsDen == 100000000

\* the default eps = 1e-8
eps == [n |-> 1, d |-> EpsDen]

NearZeroMessage == <<"Unexpected", "near-zero", "value", "in", "curvature", "computation">>

\* norm2 holds the radicands of norm_n = np.sqrt(...)
singularity_check(norm2, E, F, G, e) ==
    IF \/ \E p \in DOMAIN norm2 : SqrtLt(norm2[p], e)
       \/ \E p \in DOMAIN E : RLt(RSub(RMul(E[p], G[p]), RMul(F[p], F[p])), e)
    THEN ValueError(NearZeroMessage)
    ELSE None

(***************************************************************************)
(* Renderer: plot_surface of src/src/sudanese_mobius/visualization.py.     *)
(* Of a colour norm the model keeps the class and the colormap; its limits *)
(* vmin and vmax enter only through the test vmin < 0 < vmax, and          *)
(* np.nanmin(d) < 0 holds exactly when some sample of d that is not NaN is *)
(* below 0 (likewise 0 < np.nanmax(d)).                                    *)
(***************************************************************************)
KeyH == "|H|"

KeyK == "$K_{R^3}$"

KeyScale == "lambda"

KeyDiff == "$K_{S^3} - K_{R^3}$"

colorbar_titles ==
    [k \in {KeyH, KeyK, KeyScale, KeyDiff} |->
        CASE k = KeyH -> "Absolute Mean Curvature (|H|)"
          [] k = KeyK -> "Gaussian Curvature ($K_{R^3}$)"
          [] k = KeyScale -> "Scale Factor (lambda)"
          [] k = KeyDiff -> "Difference in Gaussian Curvature ($K_{S^3} - K_{R^3}$)"]

\* v[::stride, ::stride]
Strided(v, stride) ==
    Array([p \in {g \in Grid : g[1] % stride = 0 /\ g[2] % stride = 0} |-> v[p]])

\* the rational that carries the sign of a sample: a mean curvature
\* q / sqrt(s) has the sign of q
Signed(v) == IF "q" \in DOMAIN v THEN v.q ELSE v

\* vmin < 0 < vmax with vmin, vmax = np.nanmin(d), np.nanmax(d)
Straddles(d) ==
    /\ \E p \in DOMAIN d : RLt(Signed(d[p]), R(0))
    /\ \E p \in DOMAIN d : RLt(R(0), Signed(d[p]))

\* data_lib of plot_surface
DataLib(curv, K_S3, scale, stride) ==
    LET base == [k \in {KeyH, KeyK, KeyScale} |->
                    CASE k = KeyH ->
                           [p \in Grid |-> [q |-> RAbs(curv.mean_curvature[p].q),
                                            s |-> curv.mean_curvature[p].s]]
                      [] k = KeyK -> curv.gaussian_curvature
                      [] k = KeyScale ->
                           IF scale # None THEN scale.value ELSE curv.scale_factor]
        full == IF K_S3 # None
                THEN [k \in {KeyH, KeyK, KeyScale, KeyDiff} |->
                        IF k = KeyDiff
                        THEN [p \in Grid |-> RSub(K_S3.value[p], curv.gaussian_curvature[p])]
                        ELSE base[k]]
                ELSE base
    IN  Array([k \in DOMAIN full |-> Strided(full[k], stride)])

\* the first draw of plot_surface: norm, cmap and colorbar label
InitialView(initial_key) ==
    [key |-> initial_key, norm |-> "Normalize", cmap |-> "inferno",
     label |-> colorbar_titles[initial_key]]

\* update_plot(label): norm, cmap and colorbar label after a click
update_plot(lib, label) ==
    IF Straddles(lib[label])
    THEN [key |-> label, norm |-> "TwoSlopeNorm", cmap |-> "coolwarm",
          label |-> colorbar_titles[label]]
    ELSE [key |-> label, norm |-> "Normalize", cmap |-> "inferno",
          label |-> colorbar_titles[label]]

(***************************************************************************)
(* Inputs of the model                                                     *)
(***************************************************************************)
MaxCoord == 1

MaxCoef == 1

MaxSpacing == 2

MaxResolution == 3

\* the stacked products x1..x4 at a sample, in halves
Vec4 == [1 .. 4 -> {Rat(k, 2) : k \in -MaxCoord .. MaxCoord}]

Coefs == -MaxCoef .. MaxCoef

Spacings == {R(k) : k \in 1 .. MaxSpacing}

\* a projected point field c: x = a*i, y = j, z = p*i*j + q*i*i + r*j*j; with
\* a = 0 the surface is not regular where z_u vanishes
SurfaceField(a, p, q, r) ==
    Array([g \in Grid |->
        << R(a * g[1]), R(g[2]),
           R(p * g[1] * g[2] + q * g[1] * g[1] + r * g[2] * g[2]) >>])

\* the field c with the sample at <<0, 1>> replaced by the point pt
WithSample(c, pt) == [c EXCEPT ![<<0, 1>>] = pt]

\* a point field x in 4-space
S3Field(a, p, q) ==
    Array([g \in Grid |->
        << R(a), R(g[1]), R(g[2]), R(p * g[1] * g[2] + q * g[1] * g[1]) >>])

ConstField(v) == Array([g \in Grid |-> v])

\* K_S3 arguments: 1 everywhere (a great sphere of S3) and -1/8 everywhere
KArgs == {ConstField(R(1)), ConstField(Rat(-1, 8))}

ScaleArgs == {ConstField(R(1)), ConstField(R(2))}

Strides == {1, 2, 4}

\* first partials at a sample: xu with coordinates 0 or 1, xv with
\* coordinates -1 or 2
PartialsU == [1 .. 4 -> {R(0), R(1)}]

PartialsV == [1 .. 4 -> {R(-1), R(2)}]

(***************************************************************************)
(* State                                                                   *)
(***************************************************************************)
VARIABLES
    pc,        \* the stage the run has reached
    grid,      \* the GridParameters object
    uv,        \* its u and v sequences
    x,         \* a sample of the S3 point field: the products and the rotated point
    proj,      \* the projection of that sample
    inp,       \* the arguments of the curvature call
    locals,    \* the fields the curvature call computed on the way
    out,       \* what the curvature call returned
    out2,      \* what a second call of comp_curve_data returned
    err,       \* the exception that ended the run
    data_lib,  \* the overlays of the figure
    view       \* the norm, colormap and colorbar label on display

vars == <<pc, grid, uv, x, proj, inp, locals, out, out2, err, data_lib, view>>

Init ==
    /\ pc = "idle"
    /\ grid = None
    /\ uv = None
    /\ x = None
    /\ proj = None
    /\ inp = None
    /\ locals = None
    /\ out = None
    /\ out2 = None
    /\ err = None
    /\ data_lib = None
    /\ view = None

(***************************************************************************)
(* Package: grid, parameterizer, projector                                 *)
(***************************************************************************)
NewGridParameters ==
    /\ pc = "idle"
    /\ \E resolution \in -1 .. MaxResolution, u_min \in 0 .. 1, u_max \in 0 .. 1,
          v_min \in 0 .. 1, v_max \in 0 .. 1 :
          grid' = GridParameters(resolution, u_min, u_max, v_min, v_max)
    /\ pc' = "grid"
    /\ UNCHANGED <<uv, x, proj, inp, locals, out, out2, err, data_lib, view>>

\* reading grid.u and grid.v
ReadUV ==
    /\ pc = "grid"
    /\ LET u == linspace(grid.u_min, grid.u_max, grid.resolution)
           v == linspace(grid.v_min, grid.v_max, grid.resolution)
       IN  IF Raised(u)
           THEN /\ err' = u
                /\ pc' = "uv_error"
                /\ uv' = uv
           ELSE /\ uv' = [u |-> u.value, v |-> v.value]
                /\ pc' = "uv"
                /\ err' = err
    /\ UNCHANGED <<grid, x, proj, inp, locals, out, out2, data_lib, view>>

\* mobius_strip_s3(u, v) on the grid read; an empty grid gives an empty field
MobiusStripS3 ==
    /\ pc = "uv"
    /\ IF Len(uv.u) = 0
       THEN x' = [type |-> "empty"]
       ELSE \E pre \in Vec4 :
                x' = [type |-> "sample", pre |-> pre, rot |-> mobius_strip_s3(pre)]
    /\ pc' = "param"
    /\ UNCHANGED <<grid, uv, proj, inp, locals, out, out2, err, data_lib, view>>

StereographicProjection ==
    /\ pc = "param"
    /\ IF x.type = "empty"
       THEN proj' = [type |-> "empty"]
       ELSE LET r == stereographic_projection(x.rot)
            IN  proj' = [type |-> "sample", c |-> r.c, scale |-> r.scale]
    /\ pc' = "proj"
    /\ UNCHANGED <<grid, uv, x, inp, locals, out, out2, err, data_lib, view>>

(***************************************************************************)
(* Script: __main__ of src/sudanese_mobius_curvature.py                    *)
(***************************************************************************)
ParamUV ==
    /\ pc = "idle"
    /\ \E pre \in Vec4 :
          x' = [type |-> "sample", pre |-> pre, rot |-> param_uv(pre)]
    /\ pc' = "s_param"
    /\ UNCHANGED <<grid, uv, proj, inp, locals, out, out2, err, data_lib, view>>

Stereoproj ==
    /\ pc = "s_param"
    /\ proj' = [type |-> "sample", c |-> stereoproj(x.rot)]
    /\ pc' = "s_proj"
    /\ UNCHANGED <<grid, uv, x, inp, locals, out, out2, err, data_lib, view>>

\* curvature_comp on a projected field: a field of the family, as it is or
\* with one sample projected from the pole x4 = 1 of a unit vector (0/0 in
\* every coordinate)
CurvatureComp ==
    /\ pc = "idle"
    /\ \E a \in 0 .. 1, p \in Coefs, q \in Coefs, pole \in BOOLEAN,
          du \in Spacings, dv \in Spacings :
          \E c \in {IF pole
                     THEN WithSample(SurfaceField(a, p, q, 0), <<NaN, NaN, NaN>>)
                     ELSE SurfaceField(a, p, q, 0)} :
              /\ inp' = [c |-> c, du |-> du, dv |-> dv]
              /\ out' = curvature_comp(c, du, dv)
    /\ pc' = "s_curv"
    /\ UNCHANGED <<grid, uv, x, proj, locals, out2, err, data_lib, view>>

SingularityCheck ==
    /\ pc = "s_curv"
    /\ err' = singularity_check(out.norm2, out.E, out.F, out.G, eps)
    /\ pc' = IF Raised(err') THEN "s_error" ELSE "s_checked"
    /\ UNCHANGED <<grid, uv, x, proj, inp, locals, out, out2, data_lib, view>>

\* whether two mean curvatures q/sqrt(s) are the same number
SameMean(a, b) ==
    /\ Sign(a.q.n) = Sign(b.q.n)
    /\ RMul(RMul(a.q, a.q), b.s) = RMul(RMul(b.q, b.q), a.s)

\* TwoSlopeNorm(vmin=Hmin, vcenter=Hmid, vmax=Hmax) with Hmin, Hmax = np.min(H),
\* np.max(H) and Hmid their mean raises when vcenter >= vmax or vcenter <= vmin:
\* for a constant H, and for an H with infinities of one sign.  With a NaN in
\* H, or with infinities of both signs, Hmid is NaN, every comparison is false
\* and nothing is raised.
TwoSlopeNormRaises(H) ==
    /\ \A p \in DOMAIN H : ~IsNaN(H[p].q)
    /\ ~(\E p \in DOMAIN H : H[p].q = Inf(1)) \/ ~(\E p \in DOMAIN H : H[p].q = Inf(-1))
    /\ \/ \E p \in DOMAIN H : IsInf(H[p].q)
       \/ \A p \in DOMAIN H : SameMean(H[p], H[<<0, 0>>])

\* the script's plot_surface up to plt.show()
ScriptPlotSurface ==
    /\ pc = "s_checked"
    /\ IF TwoSlopeNormRaises(out.H)
       THEN /\ err' = ValueError(<<"vmin,", "vcenter,", "and", "vmax", "must", "be",
                                   "in", "ascending", "order">>)
            /\ pc' = "s_plot_error"
            /\ view' = view
       ELSE /\ view' = [key |-> "H", norm |-> "TwoSlopeNorm", cmap |-> "inferno",
                        label |-> "Mean Curvature"]
            /\ pc' = "s_plot"
            /\ err' = err
    /\ UNCHANGED <<grid, uv, x, proj, inp, locals, out, out2, data_lib>>

\* singularity_check called on arrays of one sample
SingularityCheckCall ==
    /\ pc = "idle"
    /\ \E s \in {R(0), R(1), NaN}, E \in 0 .. MaxCoord + 1, F \in 0 .. MaxCoord + 1,
          G \in 0 .. MaxCoord + 1 :
          LET one(v) == [p \in {<<0, 0>>} |-> v]
          IN  /\ out' = [norm2 |-> one(s), E |-> one(R(E)), F |-> one(R(F)), G |-> one(R(G))]
              /\ err' = singularity_check(one(s), one(R(E)), one(R(F)), one(R(G)), eps)
    /\ pc' = IF Raised(err') THEN "call_error" ELSE "call_ok"
    /\ UNCHANGED <<grid, uv, x, proj, inp, locals, out2, data_lib, view>>

(***************************************************************************)
(* Package: curvature engine and renderer                                  *)
(***************************************************************************)
GaussianCurvatureS3 ==
    /\ pc = "idle"
    /\ \E a \in 0 .. 1, p \in Coefs, q \in 0 .. MaxCoef, du \in Spacings, dv \in Spacings :
          \E xs \in {S3Field(a, p, q)} :
              /\ inp' = [x |-> xs, du |-> du, dv |-> dv]
              /\ out' = [type |-> "K_S3", value |-> gaussian_curvature_S3(xs, du, dv)]
    /\ pc' = "K_S3"
    /\ UNCHANGED <<grid, uv, x, proj, locals, out2, err, data_lib, view>>

\* the normal of gaussian_curvature_S3 at one sample, before normalisation
NormalVector ==
    /\ pc = "idle"
    /\ \E xs \in Vec4, xu \in PartialsU, xv \in PartialsV :
          /\ inp' = [x |-> xs, xu |-> xu, xv |-> xv]
          /\ out' = [type |-> "normal", n |-> NormalS3(xs, xu, xv)]
    /\ pc' = "normal"
    /\ UNCHANGED <<grid, uv, x, proj, locals, out2, err, data_lib, view>>

CompCurveData ==
    /\ pc = "idle"
    /\ \E a \in 0 .. 1, p \in Coefs, q \in 0 .. MaxCoef, r \in 0 .. 1,
          du \in Spacings, dv \in Spacings :
          \E c \in {SurfaceField(a, p, q, r)} :
            \E loc \in {comp_curve_locals(c, du, dv)}, scale \in ScaleArgs, K_S3 \in KArgs :
                /\ inp' = [c |-> c, scale |-> scale, K_S3 |-> K_S3, du |-> du, dv |-> dv]
                /\ locals' = [cuv |-> loc.cuv, norm2 |-> loc.norm2, denom |-> loc.denom]
                /\ out' = CurvatureData(loc, scale, K_S3)
    /\ pc' = "curv"
    /\ UNCHANGED <<grid, uv, x, proj, out2, err, data_lib, view>>

\* a second call on the same c, du, dv with another scale or another K_S3
CompCurveDataAgain ==
    /\ pc = "curv"
    /\ \E scale \in ScaleArgs, K_S3 \in KArgs :
          /\ scale # inp.scale \/ K_S3 # inp.K_S3
          /\ out2' = [scale |-> scale, K_S3 |-> K_S3,
                      data |-> comp_curve_data(inp.c, scale, K_S3, inp.du, inp.dv)]
    /\ pc' = "curv2"
    /\ UNCHANGED <<grid, uv, x, proj, inp, locals, out, err, data_lib, view>>

\* plot_surface(c, curv, K_S3, scale, stride, initial_key) up to plt.show()
PlotSurface ==
    /\ pc = "curv"
    /\ \E initial_key \in {KeyH, KeyK, KeyScale, KeyDiff}, stride \in Strides,
          with_K \in BOOLEAN, with_scale \in BOOLEAN :
          \E lib \in {DataLib(out,
                              IF with_K THEN [type |-> "ndarray", value |-> inp.K_S3]
                              ELSE None,
                              IF with_scale THEN [type |-> "ndarray", value |-> inp.scale]
                              ELSE None,
                              stride)} :
              IF initial_key \in DOMAIN lib
              THEN /\ data_lib' = lib
                   /\ view' = InitialView(initial_key)
                   /\ pc' = "plot"
                   /\ err' = err
              ELSE /\ err' = KeyError(initial_key)
                   /\ pc' = "plot_error"
                   /\ UNCHANGED <<data_lib, view>>
    /\ UNCHANGED <<grid, uv, x, proj, inp, locals, out, out2>>

\* a click on a radio button
UpdatePlot ==
    /\ pc \in {"plot", "updated"}
    /\ \E label \in DOMAIN data_lib : view' = update_plot(data_lib, label)
    /\ pc' = "updated"
    /\ UNCHANGED <<grid, uv, x, proj, inp, locals, out, out2, err, data_lib>>

(***************************************************************************)
(* Properties                                                              *)
(***************************************************************************)
\* the determinant field E*G - F^2 of fields E, F, G
Det(E, F, G) == [p \in DOMAIN E |-> RSub(RMul(E[p], G[p]), RMul(F[p], F[p]))]

\* C1 (SpecCurvature): no caller receives curvature values for a grid on which
\* some normal length or some metric determinant is below eps; comp_curve_data
\* has handed its CurvatureData over once pc = "curv"
GuardBeforeHandover ==
    pc = "curv" =>
        \A p \in Grid : ~SqrtLt(locals.norm2[p], eps) /\ ~RLt(locals.denom[p], eps)

\* C2 (SpecCurvature): the mixed second partial comp_curve_data uses in M is
\* the average of the difference along axis 1 (spacing dv) of dc/du and the
\* difference along axis 0 (spacing du) of dc/dv
SymmetrizedMixedPartial ==
    pc = "curv" =>
        locals.cuv = Average(GradientV(GradientV(inp.c, inp.du, 0), inp.dv, 1),
                             GradientV(GradientV(inp.c, inp.dv, 1), inp.du, 0))

\* C3 (SpecScript): singularity_check raises exactly when some normal length
\* or some determinant E*G - F^2 is below eps in absolute value
RaisesExactlyBelowEpsInAbs ==
    pc \in {"call_error", "call_ok"} =>
        (Raised(err) <=>
            \/ \E p \in DOMAIN out.norm2 : SqrtLt(out.norm2[p], eps)
            \/ \E p \in DOMAIN out.E :
                   RLt(RAbs(Det(out.E, out.F, out.G)[p]), eps))

\* a grid specification the parameterizer may be given: at least the three
\* samples of a second-order stencil, and increasing ranges
ValidGrid(g) ==
    /\ g.resolution >= 3
    /\ g.u_min < g.u_max
    /\ g.v_min < g.v_max

\* C4 (SpecPoint): an invalid grid specification is never passed on to the
\* parameterizer; at pc = "param" mobius_strip_s3 has run on the grid
InvalidGridRejected == pc = "param" => ValidGrid(grid)

\* C5 (SpecPoint): the projectors return no projected point for an input with
\* |1 - x4| < eps; at pc = "proj" and pc = "s_proj" a projection of the sample
\* x.rot has been returned
ProjectorReportsPole ==
    pc \in {"proj", "s_proj"} /\ x.type = "sample" =>
        ~RLt(RAbs(RSub(R(1), x.rot[4])), eps)

\* C6 (SpecScript): a run in which a NaN or an Inf occurs in the normal
\* lengths, the metric determinant or a curvature value ends in a degeneracy
\* error, so a run that got past the guard holds only finite values
NonFiniteEndsInError ==
    pc \in {"s_checked", "s_plot", "s_plot_error"} =>
        \A p \in Grid :
            /\ IsFinite(out.norm2[p])
            /\ IsFinite(Det(out.E, out.F, out.G)[p])
            /\ IsFinite(out.H[p].q)
            /\ IsFinite(out.K[p])

\* C7 (SpecCurvature): two calls of comp_curve_data on the same c, du, dv that
\* differ in scale or K_S3 return the same mean_curvature and the same
\* gaussian_curvature (gaussian_curvature_S3 has no argument besides x, du, dv)
IndependentOfOverlayArgs ==
    pc = "curv2" =>
        /\ out2.data.mean_curvature = out.mean_curvature
        /\ out2.data.gaussian_curvature = out.gaussian_curvature

\* two calls that differ in both arguments, on a surface that is curved
TwoCallsDifferingInBoth ==
    /\ pc = "curv2"
    /\ out2.K_S3 # inp.K_S3
    /\ out2.scale # inp.scale
    /\ \E p \in Grid : IsFinite(out.gaussian_curvature[p])
                          /\ out.gaussian_curvature[p] # R(0)

Norm2Of(v) == Dot4(v, v)

Identity4 == [i \in 1 .. 4 |-> [j \in 1 .. 4 |-> IF i = j THEN R(1) ELSE R(0)]]

\* the matrix product a*b of 4x4 matrices
MatMul(a, b) ==
    [i \in 1 .. 4 |-> [j \in 1 .. 4 |->
        SumTo([k \in 1 .. 4 |-> RMul(a[i][k], b[k][j])], 4)]]

\* C8 (SpecPoint): mobius_strip_s3 and param_uv apply the same matrix R, R is
\* orthogonal, and the rotated vector has the squared norm of the input
RotationOrthogonal ==
    x.type = "sample" =>
        /\ x.rot = mobius_strip_s3(x.pre)
        /\ x.rot = param_uv(x.pre)
        /\ MatMul(RotationMatrix, Transpose(RotationMatrix)) = Identity4
        /\ Norm2Of(x.rot) = Norm2Of(x.pre)

\* the package has rotated the unit vector (1, -1, 1, 1)/2 onto the pole
RotatedOntoPole ==
    /\ pc = "param"
    /\ x.type = "sample"
    /\ x.pre = <<Rat(1, 2), Rat(-1, 2), Rat(1, 2), Rat(1, 2)>>
    /\ x.rot = <<R(0), R(0), R(0), R(1)>>

\* the samples that make singularity_check raise, by field
OffendingNorm(o) == {p \in DOMAIN o.norm2 : SqrtLt(o.norm2[p], eps)}

OffendingDet(o) == {p \in DOMAIN o.E : RLt(Det(o.E, o.F, o.G)[p], eps)}

Words(message) == {message[k] : k \in DOMAIN message}

NamesSample(message, offending) ==
    \E p \in offending : {ToString(p[1]), ToString(p[2])} \subseteq Words(message)

\* C9 (SpecScript): the message of a degeneracy error names the field that
\* triggered it, normal norm or metric determinant, and the grid indices of
\* an offending sample
MessageIdentifiesFieldAndIndices ==
    pc \in {"s_error", "call_error"} =>
        \/ /\ Words(err.message) \cap {"norm", "norm_n", "normal"} # {}
           /\ NamesSample(err.message, OffendingNorm(out))
        \/ /\ Words(err.message) \cap {"determinant", "E*G-F^2", "metric"} # {}
           /\ NamesSample(err.message, OffendingDet(out))

\* the norm, colormap and label the overlay of key k must be shown with
ExpectedView(lib, k) ==
    IF Straddles(lib[k])
    THEN [key |-> k, norm |-> "TwoSlopeNorm", cmap |-> "coolwarm",
          label |-> colorbar_titles[k]]
    ELSE [key |-> k, norm |-> "Normalize", cmap |-> "inferno",
          label |-> colorbar_titles[k]]

\* C10 (SpecPlot): from the initial draw on, the overlay on display has the
\* diverging scale when its values straddle zero and the sequential scale
\* otherwise, and the colorbar label is the one of that overlay
ScaleMatchesOverlay ==
    pc \in {"plot", "updated"} => view = ExpectedView(data_lib, view.key)


\* C11 (SpecNormal): the normal n built from the four sign-alternated minors
\* of x, xu, xv is orthogonal to each of them: n.x = n.xu = n.xv = 0
NormalOrthogonal ==
    pc = "normal" =>
        /\ Dot4(out.n, inp.x) = R(0)
        /\ Dot4(out.n, inp.xu) = R(0)
        /\ Dot4(out.n, inp.xv) = R(0)

\* a normal that is not the zero vector: x, xu, xv are linearly independent
NormalOfIndependentVectors ==
    /\ pc = "normal"
    /\ \E k \in 1 .. 4 : out.n[k] # R(0)
    /\ \A k \in 1 .. 4 : inp.x[k] # R(0)

(***************************************************************************)
(* Specifications                                                          *)
(***************************************************************************)
PointNext ==
    \/ NewGridParameters
    \/ ReadUV
    \/ MobiusStripS3
    \/ StereographicProjection
    \/ ParamUV
    \/ Stereoproj

ScriptNext ==
    \/ ParamUV
    \/ Stereoproj
    \/ CurvatureComp
    \/ SingularityCheck
    \/ ScriptPlotSurface
    \/ SingularityCheckCall

CurvatureNext ==
    \/ GaussianCurvatureS3
    \/ CompCurveData
    \/ CompCurveDataAgain

NormalNext ==
    \/ NormalVector
    \/ GaussianCurvatureS3

PlotNext ==
    \/ CompCurveData
    \/ PlotSurface
    \/ UpdatePlot

Next ==
    \/ NewGridParameters
    \/ ReadUV
    \/ MobiusStripS3
    \/ StereographicProjection
    \/ ParamUV
    \/ Stereoproj
    \/ CurvatureComp
    \/ SingularityCheck
    \/ ScriptPlotSurface
    \/ SingularityCheckCall
    \/ GaussianCurvatureS3
    \/ NormalVector
    \/ CompCurveData
    \/ CompCurveDataAgain
    \/ PlotSurface
    \/ UpdatePlot

Spec == Init /\ [][Next]_vars

SpecPoint == Init /\ [][PointNext]_vars

SpecScript == Init /\ [][ScriptNext]_vars

SpecCurvature == Init /\ [][CurvatureNext]_vars

SpecNormal == Init /\ [][NormalNext]_vars

SpecPlot == Init /\ [][PlotNext]_vars

====
